---- MODULE Spec2Model ----
(***************************************************************************)
(* A model of the job application tracker (tracker.py): the applications   *)
(* table of applications.db, SQLite's AUTOINCREMENT sequence, the UTC      *)
(* clock read by the writers, the CSV file written by export, and one      *)
(* action per subcommand.  Every action is one invocation of the program.  *)
(***************************************************************************)
EXTENDS Integers, Sequences, FiniteSets, TLC

\* Bounds of the model: the largest rowid handed out and the last clock tick.
MaxId == 2
MaxClock == 2

\* Python's None: an omitted command line flag, a CSV column that the row
\* does not have, and (once bound as an SQL parameter) SQL NULL.
None == "<None>"

\* The columns of the table, in the order of the CREATE TABLE statement.
Cols ==
  <<"id", "company", "role", "location", "date_applied", "status", "source",
    "salary", "notes", "last_updated">>

\* The eight columns named by both INSERT statements before last_updated.
InsertCols ==
  <<"company", "role", "location", "date_applied", "status", "source",
    "salary", "notes">>

\* The attribute names update_application iterates over.
UpdateFlds ==
  <<"company", "role", "location", "date", "status", "source", "salary", "notes">>

Range(s) == {s[i] : i \in 1..Len(s)}

SetMax(S) == CHOOSE m \in S : \A x \in S : x <= m

\* get_conn() names one fixed database file; export writes args.file.
ExportPath == "applications.csv"

\* A table row.  vals maps each of the eight text columns to its value.
MkRow(id, vals, lu) ==
  [id |-> id, company |-> vals["company"], role |-> vals["role"],
   location |-> vals["location"], date_applied |-> vals["date_applied"],
   status |-> vals["status"], source |-> vals["source"],
   salary |-> vals["salary"], notes |-> vals["notes"], last_updated |-> lu]

\* Python truthiness of an argparse value: None and "" are falsy.
Truthy(val) == val # None /\ val # ""

\* dict assignment d[k] = v
Put(d, k, v) == [x \in (DOMAIN d) \cup {k} |-> IF x = k THEN v ELSE d[x]]


(***************************************************************************)
(* argparse                                                                *)
(***************************************************************************)
\* The defaults of the add subparser's optional flags.
AddDefault(fld) == IF fld = "status" THEN "applied" ELSE ""

\* parse_args for add: an omitted optional flag takes its default.
ParseAdd(a) ==
  [fld \in DOMAIN a |-> IF a[fld] = None THEN AddDefault(fld) ELSE a[fld]]

\* --company and --role are required=True: omitting one is a usage error
\* raised by parse_args, before any handler runs.
MissingRequired(a) == a["company"] = None \/ a["role"] = None

(***************************************************************************)
(* SQLite                                                                  *)
(***************************************************************************)
MaxRowid(tbl) == IF tbl = {} THEN 0 ELSE SetMax({r.id : r \in tbl})

NextIdReusingMax(tbl, sq) == MaxRowid(tbl) + 1

\* INTEGER PRIMARY KEY AUTOINCREMENT: one more than the largest rowid the
\* table ever held, which sqlite_sequence records.
NextId(tbl, sq) == (IF sq > MaxRowid(tbl) THEN sq ELSE MaxRowid(tbl)) + 1

\* company TEXT NOT NULL, role TEXT NOT NULL
NotNullOk(vals) == vals["company"] # None /\ vals["role"] # None

\* TEXT values compare bytewise and NULL sorts below every value; the dates
\* the model uses, in ascending order.
DateOrder == <<"", "2025-11-01", "2025-12-01", "2026-01-15">>

DateRank(v) ==
  IF v = None THEN 0
  ELSE 1 + SetMax({i \in 1..Len(DateOrder) : DateOrder[i] = v})

\* All the orders in which the rows of S can be fetched.
SeqsOf(S) ==
  {s \in [1..Cardinality(S) -> S] : \A i, j \in DOMAIN s : i # j => s[i] # s[j]}

DateAscending(s) ==
  \A i \in 1..(Len(s) - 1) :
    DateRank(s[i].date_applied) <= DateRank(s[i + 1].date_applied)

\* ORDER BY date_applied DESC
DateDescending(s) ==
  \A i \in 1..(Len(s) - 1) :
    DateRank(s[i].date_applied) >= DateRank(s[i + 1].date_applied)

\* The results a SELECT ... ORDER BY date_applied DESC over the rows S may
\* produce: rows with equal dates come in an order SQLite does not fix.
OrderByDateDesc(S) == {s \in SeqsOf(S) : DateDescending(s)}

\* company LIKE '%pat%'.  NULL never matches.  Over the company names of the
\* model no name is a proper part of another, so containment is equality of
\* the names without regard to case (all names are written in one case).
LikeContains(v, pat) == v # None /\ v = pat

\* The WHERE clause list_applications builds from its two filters.
ListWhere(tbl, a) ==
  {r \in tbl :
     /\ (Truthy(a["status"]) => (r.status # None /\ r.status = a["status"]))
     /\ (Truthy(a["company"]) => LikeContains(r.company, a["company"]))}

CountIfNotNull(r) == IF r.status = None THEN 0 ELSE 1

\* COUNT(*) counts every row of the group.
CountRow(r) == 1

\* SELECT status, COUNT(*) ... GROUP BY status: one counter per status,
\* advanced row by row; rows with a NULL status form one group.
RECURSIVE GroupByStatus(_, _)
GroupByStatus(rest, acc) ==
  IF rest = {} THEN acc
  ELSE LET r == CHOOSE x \in rest : TRUE
           st == r.status
       IN GroupByStatus(rest \ {r},
            Put(acc, st,
                IF st \in DOMAIN acc THEN acc[st] + CountRow(r) ELSE CountRow(r)))

DeleteUpTo(tbl, id) == {r \in tbl : r.id > id}

\* DELETE FROM applications WHERE id = ?
DeleteWhere(tbl, id) == {r \in tbl : r.id # id}

(***************************************************************************)
(* update_application                                                      *)
(***************************************************************************)
Column(fld) == IF fld = "date" THEN "date_applied" ELSE fld

TruthyOrEmpty(val) == val # None

\* `if val:` of the field loop.
Supplied(val) == Truthy(val)

\* The loop over the eight attribute names that fills the updates dict.
RECURSIVE CollectUpdates(_, _, _)
CollectUpdates(a, i, updates) ==
  IF i > Len(UpdateFlds) THEN updates
  ELSE LET fld == UpdateFlds[i]
           val == a[fld]
       IN CollectUpdates(a, i + 1,
            IF Supplied(val) THEN Put(updates, Column(fld), val) ELSE updates)

KeepLastUpdated(updates, now) == updates

\* updates["last_updated"] = datetime.utcnow().isoformat()
StampUpdates(updates, now) == Put(updates, "last_updated", now)

\* UPDATE applications SET k=?, ... WHERE id = ?
UpdateWhere(tbl, updates, id) ==
  {IF r.id # id THEN r
   ELSE MkRow(r.id,
              [c \in Range(InsertCols) |->
                 IF c \in DOMAIN updates THEN updates[c] ELSE r[c]],
              IF "last_updated" \in DOMAIN updates
                THEN updates["last_updated"] ELSE r.last_updated) :
   r \in tbl}


(***************************************************************************)
(* csv                                                                     *)
(***************************************************************************)
\* csv.writer writes None as the empty field and a string as itself.
CsvCell(v) == IF v = None THEN "" ELSE v

\* writer.writerow(tuple(r)): the integer id is written in decimal.  The
\* clock reading stands for its ISO-8601 text, which is written as it is.
CsvRow(r) ==
  [i \in 1..Len(Cols) |->
     IF Cols[i] = "id" THEN ToString(r.id)
     ELSE IF Cols[i] = "last_updated" THEN r.last_updated
     ELSE CsvCell(r[Cols[i]])]

\* The file export_csv writes for the fetched rows: rows[0].keys(), then one
\* line per row.
CsvOf(rows) ==
  [exists |-> TRUE, header |-> Cols, rows |-> [i \in 1..Len(rows) |-> CsvRow(rows[i])]]

NoFile == [exists |-> FALSE, header |-> <<>>, rows |-> <<>>]

\* What export_csv may leave under its path when the table holds tbl and the
\* path held old: an empty table returns before the file is opened.
ExportFiles(tbl, old) ==
  IF tbl = {} THEN {old} ELSE {CsvOf(rows) : rows \in OrderByDateDesc(tbl)}

\* csv.DictReader skips the lines that hold no field.
DataRows(file) == SelectSeq(file.rows, LAMBDA line : Len(line) > 0)

\* row.get(col) of a DictReader row: the field under the header col, None
\* when the header lacks col or the line is too short to reach it.
RowGet(header, line, col) ==
  LET at == {i \in 1..Len(header) : header[i] = col}
  IN IF at = {} THEN None
     ELSE IF SetMax(at) > Len(line) THEN None
     ELSE line[SetMax(at)]

\* The eight parameters import_csv binds for one line.
ImportVals(header, line) == [c \in Range(InsertCols) |-> RowGet(header, line, c)]

\* The INSERT loop of import_csv over lines i.. of the file; times[i] is the
\* clock reading of line i.  A NULL company or role raises IntegrityError,
\* which ends the loop before the commit.
RECURSIVE InsertLines(_, _, _, _, _, _)
InsertLines(tbl, sq, header, lines, i, times) ==
  IF i > Len(lines) THEN [ok |-> TRUE, tbl |-> tbl, seq |-> sq]
  ELSE LET vals == ImportVals(header, lines[i])
           id == NextId(tbl, sq)
       IN IF ~NotNullOk(vals) THEN [ok |-> FALSE, tbl |-> tbl, seq |-> sq]
          ELSE InsertLines(tbl \cup {MkRow(id, vals, times[i])}, id, header,
                           lines, i + 1, times)

\* The CSV files a user may hand to import besides the one export wrote.
PartialFile ==
  [exists |-> TRUE, header |-> <<"company", "role">>,
   rows |-> << <<"Globex", "PM">> >>]

NoCompanyFile ==
  [exists |-> TRUE, header |-> <<"role", "status">>,
   rows |-> << <<"PM", "applied">> >>]

FullFile ==
  [exists |-> TRUE, header |-> InsertCols,
   rows |-> << <<"", "Dev", "", "2025-12-01", "applied", "", "", "remote">>,
               <<>>,
               <<"", "Dev", "", "2025-12-01", "applied", "", "", "remote">> >>]

ImportPaths ==
  {ExportPath, "partial.csv", "nocompany.csv", "full.csv", "missing.csv"}

\* open(args.file): the content found under a path; exported is the file
\* export_csv wrote, if any.
ReadFile(path, exported) ==
  CASE path = ExportPath -> exported
    [] path = "partial.csv" -> PartialFile
    [] path = "nocompany.csv" -> NoCompanyFile
    [] path = "full.csv" -> FullFile
    [] OTHER -> NoFile

(***************************************************************************)
(* The command lines tried                                                 *)
(***************************************************************************)
BaseAdd ==
  [company |-> "ACME", role |-> "SWE", location |-> None, date |-> None,
   status |-> None, source |-> None, salary |-> None, notes |-> None]

FullAdd ==
  [company |-> "Initech", role |-> "QA", location |-> "NYC",
   date |-> "2025-11-01", status |-> "interviewed", source |-> "web",
   salary |-> "100k", notes |-> "referral"]

AddArgs ==
  {BaseAdd, FullAdd, [BaseAdd EXCEPT !.date = "2025-12-01"]}
    \cup {[BaseAdd EXCEPT !.company = c] : c \in {None, ""}}
    \cup {[BaseAdd EXCEPT !.role = x] : x \in {None, " "}}

NoUpdate ==
  [company |-> None, role |-> None, location |-> None, date |-> None,
   status |-> None, source |-> None, salary |-> None, notes |-> None]

FullUpdate ==
  [company |-> "Globex", role |-> "PM", location |-> "SF",
   date |-> "2026-01-15", status |-> "offer", source |-> "ref",
   salary |-> "120k", notes |-> "call"]

UpdateFields ==
  {NoUpdate, FullUpdate,
   [NoUpdate EXCEPT !.status = ""],
   [NoUpdate EXCEPT !.status = "offer", !.notes = ""]}

ListArgs == [status : {None, "applied"}, company : {None, "ACME"}]

Ids == 1..MaxId


(***************************************************************************)
(* State                                                                   *)
(***************************************************************************)
VARIABLES
  applications,  \* the rows of the applications table
  seq,           \* sqlite_sequence: the largest rowid ever committed
  clock,         \* the latest reading of datetime.utcnow()
  csvFile,       \* the file under ExportPath
  op,            \* the subcommand of the latest invocation
  args,          \* its parsed arguments
  result,        \* what it reported
  out,           \* the rows it fetched (list, stats)
  conn,          \* the connection it acquired, as it stands when it returns
  beforeList,    \* for a list: the invocation before it and its report
  assigned       \* every id a committed INSERT has handed out

vars ==
  <<applications, seq, clock, csvFile, op, args, result, out, conn,
    beforeList, assigned>>

\* The state after `init` on a new directory.
Init ==
  /\ applications = {}
  /\ seq = 0
  /\ clock = 0
  /\ csvFile = NoFile
  /\ op = "init"
  /\ args = [cmd |-> "init"]
  /\ result = "ok"
  /\ out = <<>>
  /\ conn = "closed"
  /\ beforeList = <<"none", "none">>
  /\ assigned = {}

\* What every invocation records about itself.
Ran(cmd, a, res, o, c) ==
  /\ op' = cmd
  /\ args' = a
  /\ result' = res
  /\ out' = o
  /\ conn' = c
  /\ beforeList' = IF cmd = "list" THEN <<op, result>> ELSE <<"none", "none">>

\* init: CREATE TABLE IF NOT EXISTS on the existing table.
InitDb ==
  /\ Ran("init", [cmd |-> "init"], "ok", <<>>, "closed")
  /\ UNCHANGED <<applications, seq, clock, csvFile, assigned>>

\* add, refused by parse_args: no handler runs, no connection is made.
AddUsageError ==
  \E a \in AddArgs :
    /\ MissingRequired(a)
    /\ Ran("add", a, "usage_error", <<>>, "none")
    /\ UNCHANGED <<applications, seq, clock, csvFile, assigned>>

\* add_application.  Every invocation is a process of its own: the clock
\* reading it takes is later than every reading taken before it.
AddApplication ==
  \E a \in AddArgs :
    /\ ~MissingRequired(a)
    /\ seq < MaxId
    /\ clock < MaxClock
    /\ LET p == ParseAdd(a)
           vals == [c \in Range(InsertCols) |->
                      p[IF c = "date_applied" THEN "date" ELSE c]]
           id == NextId(applications, seq)
           now == clock + 1
       IN /\ applications' = applications \cup {MkRow(id, vals, now)}
          /\ seq' = id
          /\ clock' = now
          /\ assigned' = assigned \cup {id}
    /\ Ran("add", a, "added", <<>>, "closed")
    /\ UNCHANGED csvFile

\* list_applications
ListApplications ==
  \E a \in ListArgs :
    \E rows \in OrderByDateDesc(ListWhere(applications, a)) :
      /\ Ran("list", a, IF rows = <<>> THEN "none_found" ELSE "rows", rows, "closed")
      /\ UNCHANGED <<applications, seq, clock, csvFile, assigned>>

\* update_application
UpdateApplication ==
  \E id \in Ids, f \in UpdateFields :
    LET a == [id |-> id, flds |-> f]
        updates == CollectUpdates(f, 1, <<>>)
    IN IF ~(\E r \in applications : r.id = id)
         THEN \* `if not row: return`, before conn.close()
              /\ Ran("update", a, "not_found", <<>>, "open")
              /\ UNCHANGED <<applications, seq, clock, csvFile, assigned>>
       ELSE IF DOMAIN updates = {}
         THEN \* `if not updates: return`, before conn.close()
              /\ Ran("update", a, "no_changes", <<>>, "open")
              /\ UNCHANGED <<applications, seq, clock, csvFile, assigned>>
       ELSE /\ clock < MaxClock
            /\ applications' =
                 UpdateWhere(applications, StampUpdates(updates, clock + 1), id)
            /\ clock' = clock + 1
            /\ Ran("update", a, "updated", <<>>, "closed")
            /\ UNCHANGED <<seq, csvFile, assigned>>

\* stats
Stats ==
  /\ Ran("stats", [cmd |-> "stats"],
         IF applications = {} THEN "no_data" ELSE "rows",
         GroupByStatus(applications, <<>>), "closed")
  /\ UNCHANGED <<applications, seq, clock, csvFile, assigned>>

\* export_csv
ExportCsv ==
  IF applications = {}
    THEN \* "No data to export.": the file is not opened
         /\ Ran("export", [file |-> ExportPath], "no_data", <<>>, "closed")
         /\ UNCHANGED <<applications, seq, clock, csvFile, assigned>>
    ELSE \E f \in ExportFiles(applications, csvFile) :
           /\ csvFile' = f
           /\ Ran("export", [file |-> ExportPath], "exported", <<>>, "closed")
           /\ UNCHANGED <<applications, seq, clock, assigned>>

\* import_csv.  Every line reads the clock anew: the readings of one run
\* are all equal (step 0) or one tick apart (step 1).
ImportCsv ==
  \E path \in ImportPaths, step \in 0..1 :
    LET file == ReadFile(path, csvFile)
        lines == DataRows(file)
        times == [i \in 1..Len(lines) |-> clock + 1 + step * (i - 1)]
        done == InsertLines(applications, seq, file.header, lines, 1, times)
    IN IF ~file.exists
         THEN \* open() raises FileNotFoundError after get_conn()
              /\ step = 0
              /\ Ran("import", [file |-> path], "file_error", <<>>, "open")
              /\ UNCHANGED <<applications, seq, clock, csvFile, assigned>>
       ELSE IF ~done.ok
         THEN \* IntegrityError leaves the loop: nothing is committed, and
              \* the rows inserted so far are rolled back with the connection
              /\ step = 0
              /\ Ran("import", [file |-> path], "integrity_error", <<>>, "open")
              /\ UNCHANGED <<applications, seq, clock, csvFile, assigned>>
       ELSE /\ done.seq <= MaxId
            /\ clock + 1 + step * (Len(lines) - 1) <= MaxClock
            /\ (Len(lines) < 2 => step = 0)
            /\ applications' = done.tbl
            /\ seq' = done.seq
            /\ clock' = IF lines = <<>> THEN clock ELSE times[Len(lines)]
            /\ assigned' = assigned \cup {r.id : r \in done.tbl \ applications}
            /\ Ran("import", [file |-> path], "imported", <<>>, "closed")
            /\ UNCHANGED csvFile

\* delete_application
DeleteApplication ==
  \E id \in Ids :
    /\ applications' = DeleteWhere(applications, id)
    /\ Ran("delete", [id |-> id], "deleted", <<>>, "closed")
    /\ UNCHANGED <<seq, clock, csvFile, assigned>>

\* The invocations that read and write the table.
Next ==
  \/ InitDb
  \/ AddUsageError
  \/ AddApplication
  \/ ListApplications
  \/ UpdateApplication
  \/ Stats
  \/ ImportCsv
  \/ DeleteApplication

Spec == Init /\ [][Next]_vars

\* The same, with export: import may now read back what export wrote.
NextCsv ==
  \/ Next
  \/ ExportCsv

SpecCsv == Init /\ [][NextCsv]_vars


(***************************************************************************)
(* Properties                                                              *)
(***************************************************************************)
IdsOf(tbl) == {r.id : r \in tbl}

\* A flag value that carries text: given, and not the empty string.
NonEmpty(v) == v # None /\ v # ""

\* A value that is empty once trimmed: omitted, empty, or blanks only.
Blank(v) == v \in {None, "", " "}

\* The value create stores for a flag: the flag's text, or the default of an
\* omitted flag ("applied" for status, the empty string for the others).
Created(fld, v) == IF v # None THEN v ELSE IF fld = "status" THEN "applied" ELSE ""

\* Row r holds exactly what add was given as a.
MatchesAdd(r, a) ==
  \A fld \in Range(UpdateFlds) : r[Column(fld)] = Created(fld, a[fld])

\* The eight user fields of the rows of a table.
Tuples(tbl) == {[c \in Range(InsertCols) |-> r[c]] : r \in tbl}

RECURSIVE SumOf(_)
SumOf(f) ==
  IF DOMAIN f = {} THEN 0
  ELSE LET k == CHOOSE x \in DOMAIN f : TRUE
       IN f[k] + SumOf([x \in (DOMAIN f) \ {k} |-> f[x]])

\* C1: an update of an existing record that supplies at least one non-empty
\* field succeeds; in the target record exactly the columns with a non-empty
\* supplied value take that value, every other column (id included) keeps
\* its value, last_updated becomes strictly later, and every other record is
\* unchanged.
UpdateOverwritesOnlySupplied ==
  [][(/\ op' = "update"
      /\ \E r \in applications : r.id = args'.id
      /\ \E fld \in Range(UpdateFlds) : NonEmpty(args'.flds[fld]))
     => /\ result' = "updated"
        /\ IdsOf(applications') = IdsOf(applications)
        /\ Cardinality(applications') = Cardinality(applications)
        /\ \A r \in applications : r.id # args'.id => r \in applications'
        /\ \E old \in applications, new \in applications' :
             /\ old.id = args'.id
             /\ new.id = args'.id
             /\ \A fld \in Range(UpdateFlds) :
                  new[Column(fld)] =
                    IF NonEmpty(args'.flds[fld]) THEN args'.flds[fld]
                    ELSE old[Column(fld)]
             /\ new.last_updated > old.last_updated]_vars

\* An update changed status, skipped the empty --notes and left the note of
\* the target and the other record as they were.
UpdateOverwritesOnlySuppliedWitness ==
  /\ op = "update"
  /\ result = "updated"
  /\ args.flds.status = "offer"
  /\ args.flds.notes = ""
  /\ Cardinality(applications) = 2
  /\ \E r \in applications :
       r.id = args.id /\ r.status = "offer" /\ r.notes = "remote"

\* C2: every id given to a new record, by add or by import, is greater than
\* every id handed out before, also after the record with the highest id was
\* deleted; ids are unique, and no operation changes the id of a record.
IdsNeverReused ==
  [][/\ \A r \in applications' :
          r.id \notin IdsOf(applications) => \A a \in assigned : r.id > a
     /\ \A r1, r2 \in applications' : r1.id = r2.id => r1 = r2
     /\ op' \in {"add", "import"} => applications \subseteq applications'
     /\ op' = "delete" => applications' \subseteq applications
     /\ op' \in {"update", "list", "stats", "export", "init"} =>
          IdsOf(applications') = IdsOf(applications)]_vars

\* An add after the record with the highest id (1) was deleted got id 2.
IdsNeverReusedWitness ==
  /\ op = "add"
  /\ result = "added"
  /\ assigned = {1, 2}
  /\ IdsOf(applications) = {2}

\* C3: add fails and persists nothing whenever company or role is empty
\* after trimming (omitted, empty, or blanks only).
AddRejectsBlankRequired ==
  [][(op' = "add" /\ (Blank(args'.company) \/ Blank(args'.role)))
     => (result' # "added" /\ applications' = applications)]_vars

\* C4: an update of an id no record holds reports not-found, an update of an
\* existing id whose fields are all omitted or empty reports no-changes, and
\* in both cases the table (rows, fields, last_updated) is as before.
FailedUpdateChangesNothing ==
  [][(/\ op' = "update"
      /\ \/ ~(\E r \in applications : r.id = args'.id)
         \/ \A fld \in Range(UpdateFlds) : ~NonEmpty(args'.flds[fld]))
     => /\ applications' = applications
        /\ seq' = seq
        /\ result' = IF \E r \in applications : r.id = args'.id
                       THEN "no_changes" ELSE "not_found"]_vars

\* An update of an existing record was given only an empty --status.
FailedUpdateChangesNothingWitness ==
  /\ op = "update"
  /\ result = "no_changes"
  /\ args.flds.status = ""
  /\ \E r \in applications : r.id = args.id

\* C5: delete removes the record with the given id and nothing else; when
\* no record has that id the table is unchanged; it reports success.
DeleteRemovesOnlyTarget ==
  [][op' = "delete"
     => /\ result' = "deleted"
        /\ \A r \in applications : r.id # args'.id => r \in applications'
        /\ \A r \in applications' : r \in applications /\ r.id # args'.id]_vars

\* A delete removed a record that existed and another record is still there.
DeleteRemovesOnlyTargetWitness ==
  /\ op = "delete"
  /\ args.id \in assigned
  /\ args.id \notin IdsOf(applications)
  /\ applications # {}

\* The stores that an import of file f into a new, empty store may produce.
FreshImport(f) ==
  IF ~f.exists THEN {}
  ELSE LET lines == DataRows(f)
       IN InsertLines({}, 0, f.header, lines, 1, [i \in 1..Len(lines) |-> 1]).tbl

\* C6: in every reachable state, export followed by import of the exported
\* file into a new empty store yields the same set of eight-field tuples.
RoundTripKeepsTuples ==
  \A f \in ExportFiles(applications, csvFile) :
    Tuples(FreshImport(f)) = Tuples(applications)

\* C7: an import of a readable file turns every line into one new record,
\* without validation or deduplication, holding the values create would
\* store for the columns the line supplies (the defaults for the others).
ImportCreatesLikeCreate ==
  [][(op' = "import" /\ ReadFile(args'.file, csvFile).exists)
     => LET file == ReadFile(args'.file, csvFile)
            lines == DataRows(file)
            new == applications' \ applications
            like(r, line) ==
              \A c \in Range(InsertCols) :
                r[c] = Created(c, RowGet(file.header, line, c))
        IN /\ result' = "imported"
           /\ applications \subseteq applications'
           /\ Cardinality(new) = Len(lines)
           /\ \A i \in 1..Len(lines) : \E r \in new : like(r, lines[i])
           /\ \A r \in new : \E i \in 1..Len(lines) : like(r, lines[i])]_vars

\* C8: stats returns one entry for every status some record holds and no
\* other, each count is at least 1 and is the number of records with that
\* status, and the counts add up to the number of records.
StatsCountsEveryStatus ==
  op = "stats" =>
    /\ DOMAIN out = {r.status : r \in applications}
    /\ \A st \in DOMAIN out :
         /\ out[st] >= 1
         /\ out[st] = Cardinality({r \in applications : r.status = st})
    /\ SumOf(out) = Cardinality(applications)

\* stats counted two records under one status.
StatsCountsEveryStatusWitness ==
  /\ op = "stats"
  /\ \E st \in DOMAIN out : out[st] = 2

\* C9 as stated: after add, a list without filters has the added record
\* first.
ListAfterAddHeadIsAdded ==
  [][(/\ op = "add"
      /\ result = "added"
      /\ op' = "list"
      /\ args'.status = None
      /\ args'.company = None)
     => (out' # <<>> /\ MatchesAdd(out'[1], args))]_vars

\* C9 amended: after add, a list without filters returns every record once,
\* in descending order of date_applied; the added record is among them with
\* the values given to add, and it is first whenever its date_applied is
\* greater than that of every other record.
ListAfterAddSorted ==
  [][(/\ op = "add"
      /\ result = "added"
      /\ op' = "list"
      /\ args'.status = None
      /\ args'.company = None)
     => /\ Range(out') = applications
        /\ Len(out') = Cardinality(applications)
        /\ \A i \in 1..(Len(out') - 1) :
             DateRank(out'[i].date_applied) >= DateRank(out'[i + 1].date_applied)
        /\ \E i \in 1..Len(out') : out'[i].id = seq /\ MatchesAdd(out'[i], args)
        /\ (\A r \in applications : \A x \in applications :
              (r.id = seq /\ x.id # seq)
                => DateRank(r.date_applied) > DateRank(x.date_applied))
           => (out'[1].id = seq /\ MatchesAdd(out'[1], args))]_vars

\* A list right after an add shows the added record first, ahead of an
\* older record with an earlier date.
ListAfterAddSortedWitness ==
  /\ op = "list"
  /\ beforeList = <<"add", "added">>
  /\ args.status = None
  /\ args.company = None
  /\ Len(out) = 2
  /\ out[1].id = seq
  /\ DateRank(out[1].date_applied) > DateRank(out[2].date_applied)

\* C10: no invocation returns with the connection it acquired still open.
ConnectionAlwaysReleased == conn # "open"

====
